---- MODULE Spec2Model ----
(***************************************************************************)
(* Model of ComparisonImageLibrary.py: a lazily decoded RGB image wrapper  *)
(* with crop, pixel access, a normalised pixel difference, a tolerance     *)
(* predicate and a normalised cross-correlation sub-image search.          *)
(*                                                                         *)
(* Numbers.  Python floats are modelled as exact non-negative rationals    *)
(* <<num, den>>; comparisons are done by cross multiplication.  The score  *)
(* of TM_CCORR_NORMED, num / sqrt(t2 * i2), is kept as <<num, t2, i2>> and *)
(* compared through its square.                                            *)
(***************************************************************************)
EXTENDS Integers, Sequences, FiniteSets

VARIABLES disk, objs, decodes, last

vars == <<disk, objs, decodes, last>>

(***************************************************************************)
(* Bounds of the model.                                                    *)
(***************************************************************************)
MaxInst == 2
MaxPixels == 3
MaxCrop == 2

(***************************************************************************)
(* class DIFFERENCE: the four named thresholds, as rationals.              *)
(***************************************************************************)
PERFECT == <<9, 100>>
GOOD == <<5, 100>>
BAD == <<15, 100>>
TERRIBLE == <<30, 100>>

(***************************************************************************)
(* Arithmetic helpers.                                                     *)
(***************************************************************************)
Abs(n) == IF n < 0 THEN -n ELSE n

Min(a, b) == IF a < b THEN a ELSE b

RECURSIVE SumTo(_, _)
\* sum(f[k] for k in 1..n), the builtin sum over a generator
SumTo(f, n) == IF n = 0 THEN 0 ELSE f[n] + SumTo(f, n - 1)

RECURSIVE FracLeq(_, _, _, _)
\* a/b <= c/d for a, c >= 0 and b, d > 0, by continued fractions (no large products)
FracLeq(a, b, c, d) ==
    LET qa == a \div b
        qc == c \div d
        ra == a % b
        rc == c % d
    IN  IF qa # qc THEN qa < qc
        ELSE IF ra = 0 THEN TRUE
        ELSE IF rc = 0 THEN FALSE
        ELSE FracLeq(d, rc, b, ra)

\* float comparison p <= q of two rationals
RatLeq(p, q) == FracLeq(p[1], p[2], q[1], q[2])

\* float comparison p < q of two rationals
RatLt(p, q) == ~RatLeq(q, p)

(***************************************************************************)
(* PIL images.  An image is [mode, size, data]; data is the row-major      *)
(* pixel stream of getdata(), every pixel a tuple of its bands (a          *)
(* one-tuple for the single-band mode "L").                                *)
(***************************************************************************)
NoImage == [mode |-> "None", size |-> <<0, 0>>, data |-> <<>>]

NoPath == ""

Bands(mode) == IF mode = "L" THEN 1 ELSE IF mode = "RGB" THEN 3 ELSE 4

Area(im) == im.size[1] * im.size[2]

\* getpixel((x, y)) of a loaded image, 0 <= x < width, 0 <= y < height
GetPixel(im, x, y) == im.data[y * im.size[1] + x + 1]

\* Image.convert('RGB') of one pixel: grey is replicated, alpha is dropped
ConvertPixel(mode, p) ==
    IF mode = "L" THEN <<p[1], p[1], p[1]>> ELSE <<p[1], p[2], p[3]>>

\* Image.convert('RGB')
ConvertRGB(im) ==
    [mode |-> "RGB", size |-> im.size,
     data |-> [k \in 1..Area(im) |-> ConvertPixel(im.mode, im.data[k])]]

\* Image.crop((x0, y0, x1, y1)): the box's pixels, zero outside the source; a
\* box with x1 <= x0 or y1 <= y0 gives an image of width or height 0
CropBox(im, x0, y0, x1, y1) ==
    LET w == IF x1 < x0 THEN 0 ELSE x1 - x0
        h == IF y1 < y0 THEN 0 ELSE y1 - y0
        zero == [c \in 1..Bands(im.mode) |-> 0]
        at(k) == LET sx == x0 + ((k - 1) % w)
                     sy == y0 + ((k - 1) \div w)
                 IN  IF sx < im.size[1] /\ sy < im.size[2]
                     THEN GetPixel(im, sx, sy) ELSE zero
    IN  [mode |-> im.mode, size |-> <<w, h>>, data |-> [k \in 1..(w * h) |-> at(k)]]

\* Image.tostring(): the raw bytes, row-major, band by band
ToBytesOf(im) ==
    LET b == Bands(im.mode)
    IN  [k \in 1..(Area(im) * b) |-> im.data[((k - 1) \div b) + 1][((k - 1) % b) + 1]]

(***************************************************************************)
(* difference: the body of the method on two loaded PIL images.            *)
(***************************************************************************)
\* n_components = i1.size[0] * i1.size[1] * 3
NComponentsPixels(i1) == i1.size[1] * i1.size[2]

NComponents(i1) == i1.size[1] * i1.size[2] * 3

DifferenceOf(i1, i2) ==
    LET n == Min(Area(i1), Area(i2))
        gray == Bands(i1.mode) = 1
        nb == Min(Bands(i1.mode), Bands(i2.mode))
        chan(k) == [c \in 1..nb |-> Abs(i1.data[k][c] - i2.data[k][c])]
        per == [k \in 1..n |->
                  IF gray THEN Abs(i1.data[k][1] - i2.data[k][1])
                  ELSE SumTo(chan(k), nb)]
        n_components == NComponents(i1)
    IN  IF n > 0 /\ (gray # (Bands(i2.mode) = 1))
        THEN [status |-> "TypeError", val |-> <<0, 1>>,
              branch |-> IF gray THEN "gray" ELSE "rgb"]
        ELSE IF n_components = 0
        THEN [status |-> "ZeroDivisionError", val |-> <<0, 1>>,
              branch |-> IF gray THEN "gray" ELSE "rgb"]
        ELSE [status |-> "ok", val |-> <<SumTo(per, n), 255 * n_components>>,
              branch |-> IF gray THEN "gray" ELSE "rgb"]

(***************************************************************************)
(* cv2.matchTemplate(image, templ, TM_CCORR_NORMED) and cv2.minMaxLoc.     *)
(***************************************************************************)
\* the score of one placement: <<sum I*T, sum T*T, sum I*I>> over the window
CCorr(img, templ, x, y) ==
    LET w == templ.size[1]
        b == Bands(templ.mode)
        n == Area(templ)
        ip(k) == GetPixel(img, x + ((k - 1) % w), y + ((k - 1) \div w))
        dot(p, q) == SumTo([c \in 1..b |-> p[c] * q[c]], b)
    IN  <<SumTo([k \in 1..n |-> dot(ip(k), templ.data[k])], n),
          SumTo([k \in 1..n |-> dot(templ.data[k], templ.data[k])], n),
          SumTo([k \in 1..n |-> dot(ip(k), ip(k))], n)>>

\* the square of the normalised score num / sqrt(t2 * i2); 0 when the norm is 0
ScoreSq(s) == IF s[2] * s[3] = 0 THEN <<0, 1>> ELSE <<s[1] * s[1], s[2] * s[3]>>

ScoreLt(s1, s2) == RatLt(ScoreSq(s1), ScoreSq(s2))

\* maxVal < threshold, both non-negative
ScoreBelow(s, thr) == RatLt(ScoreSq(s), <<thr[1] * thr[1], thr[2] * thr[2]>>)

\* matchTemplate: when templ exceeds image in a dimension the two are swapped,
\* and the one searched must then cover the other in both dimensions
MatchTemplate(image, templ) ==
    LET swap == image.size[2] < templ.size[2] \/ image.size[1] < templ.size[1]
        img == IF swap THEN templ ELSE image
        tpl == IF swap THEN image ELSE templ
        rw == img.size[1] - tpl.size[1] + 1
        rh == img.size[2] - tpl.size[2] + 1
    IN  IF \/ Area(img) = 0 \/ Area(tpl) = 0
           \/ img.mode # tpl.mode
           \/ img.size[1] < tpl.size[1] \/ img.size[2] < tpl.size[2]
        THEN [status |-> "cv2.error", cols |-> 0, rows |-> 0, score |-> <<>>]
        ELSE [status |-> "ok", cols |-> rw, rows |-> rh,
              score |-> [k \in 1..(rw * rh) |->
                           CCorr(img, tpl, (k - 1) % rw, (k - 1) \div rw)]]

RECURSIVE MaxIdx(_, _)
\* minMaxLoc's scan: the first index, in row-major order, of the largest score
MaxIdx(score, k) ==
    IF k = 1 THEN 1
    ELSE LET b == MaxIdx(score, k - 1)
         IN  IF ScoreLt(score[b], score[k]) THEN k ELSE b

\* minMaxLoc(result): (maxVal, maxLoc)
MinMaxLoc(result) ==
    LET k == MaxIdx(result.score, result.cols * result.rows)
    IN  [maxVal |-> result.score[k],
         maxLoc |-> <<(k - 1) % result.cols, (k - 1) \div result.cols>>]

(***************************************************************************)
(* ComparisonImageLibrary instances.  objs[i] is the i-th instance made,   *)
(* with its two fields; decodes[i] counts the completed                    *)
(* Image.open(path).convert('RGB') of that instance; disk maps a file name *)
(* to the image stored there (NoImage: no such file); last is the most     *)
(* recent call with its arguments and outcome.                             *)
(***************************************************************************)
\* truthiness of the constructor's arguments: None and '' are false
TruthyPath(path) == path # NoPath

TruthyImage(image) == image # NoImage

\* __init__ after its assert: the two assignments
NewNoConvert(path, image) == [path |-> path, image |-> image]

New(path, image) ==
    [path |-> path, image |-> IF TruthyImage(image) THEN ConvertRGB(image) ELSE NoImage]

\* the assert of __init__
InitAcceptsBoth(path, image) == TruthyPath(path) /\ TruthyImage(image)

InitAccepts(path, image) == TruthyPath(path) \/ TruthyImage(image)

\* Image.open(path) succeeds
CanOpen(d, path) == path \in DOMAIN d /\ d[path] # NoImage

\* the image property of instance i: heap and decode counts after the access
ImagePropNoCache(d, os, ds, i) ==
    IF CanOpen(d, os[i].path)
    THEN [status |-> "ok",
          objs |-> [os EXCEPT ![i].image = ConvertRGB(d[os[i].path])],
          decodes |-> [ds EXCEPT ![i] = @ + 1]]
    ELSE [status |-> "IOError", objs |-> os, decodes |-> ds]

ImageProp(d, os, ds, i) ==
    IF os[i].image # NoImage
    THEN [status |-> "ok", objs |-> os, decodes |-> ds]
    ELSE IF CanOpen(d, os[i].path)
    THEN [status |-> "ok",
          objs |-> [os EXCEPT ![i].image = ConvertRGB(d[os[i].path])],
          decodes |-> [ds EXCEPT ![i] = @ + 1]]
    ELSE [status |-> "IOError", objs |-> os, decodes |-> ds]

\* percent=DIFFERENCE.PERFECT and threshold=DIFFERENCE.PERFECT
Omitted == <<0, 0>>

DefaultPerfect(given) == IF given = Omitted THEN PERFECT ELSE given

\* self.difference(other) <= percent
SameAsOfStrict(d, percent) == RatLt(d, percent)

SameAsOf(d, percent) == RatLeq(d, percent)

\* the tail of part_of: None (<<>>) below the threshold, else maxLoc
PartOfResultLeq(mm, threshold) ==
    IF RatLeq(ScoreSq(mm.maxVal),
              <<threshold[1] * threshold[1], threshold[2] * threshold[2]>>)
    THEN <<>> ELSE mm.maxLoc

PartOfResult(mm, threshold) ==
    IF ScoreBelow(mm.maxVal, threshold) THEN <<>> ELSE mm.maxLoc

NoCall ==
    [op |-> "none", status |-> "ok", self |-> 0, other |-> 0, path |-> NoPath,
     image |-> NoImage, rect |-> <<0, 0, 0, 0>>, given |-> Omitted,
     val |-> <<>>, branch |-> ""]

Insts == 1..Len(objs)

\* ComparisonImageLibrary(path, image)
Construct(path, image) ==
    /\ Len(objs) < MaxInst
    /\ IF InitAccepts(path, image)
       THEN /\ objs' = Append(objs, New(path, image))
            /\ decodes' = Append(decodes, 0)
            /\ last' = [NoCall EXCEPT !.op = "__init__", !.path = path,
                                      !.image = image, !.self = Len(objs) + 1]
       ELSE /\ UNCHANGED <<objs, decodes>>
            /\ last' = [NoCall EXCEPT !.op = "__init__", !.path = path,
                                      !.image = image, !.status = "AssertionError"]
    /\ UNCHANGED disk

\* a call on instance i that only reads self.image and returns v computed from it
Reader(op, i, r, v) ==
    /\ objs' = r.objs
    /\ decodes' = r.decodes
    /\ last' = IF r.status = "ok"
               THEN [NoCall EXCEPT !.op = op, !.self = i, !.val = v]
               ELSE [NoCall EXCEPT !.op = op, !.self = i, !.status = r.status]
    /\ UNCHANGED disk

WidthOf(im) == <<im.size[1]>>

HeightOf(im) == <<im.size[2]>>

Width(i) ==
    LET r == ImageProp(disk, objs, decodes, i)
    IN  Reader("width", i, r, WidthOf(r.objs[i].image))

Height(i) ==
    LET r == ImageProp(disk, objs, decodes, i)
    IN  Reader("height", i, r, HeightOf(r.objs[i].image))

ToBytes(i) ==
    LET r == ImageProp(disk, objs, decodes, i)
    IN  Reader("to_bytes", i, r, ToBytesOf(r.objs[i].image))

Pixel(i, x, y) ==
    LET r == ImageProp(disk, objs, decodes, i)
        im == r.objs[i].image
    IN  /\ objs' = r.objs
        /\ decodes' = r.decodes
        /\ last' = [NoCall EXCEPT
                      !.op = "pixel", !.self = i, !.rect = <<x, y, 0, 0>>,
                      !.status = IF r.status # "ok" THEN r.status
                                 ELSE IF x < im.size[1] /\ y < im.size[2] THEN "ok"
                                 ELSE "IndexError",
                      !.val = IF r.status = "ok" /\ x < im.size[1] /\ y < im.size[2]
                              THEN GetPixel(im, x, y) ELSE <<>>]
        /\ UNCHANGED disk

\* x, y, w, h = rect; the box handed to Image.crop is (x, y, w + x, y + h)
CropArgsAsCorners(rect) == rect

CropArgs(rect) == <<rect[1], rect[2], rect[3] + rect[1], rect[2] + rect[4]>>

Crop(i, rect) ==
    LET r == ImageProp(disk, objs, decodes, i)
        box == CropArgs(rect)
    IN  /\ IF r.status = "ok"
           THEN /\ objs' = Append(r.objs,
                                  New(NoPath, CropBox(r.objs[i].image,
                                                      box[1], box[2], box[3], box[4])))
                /\ decodes' = Append(r.decodes, 0)
                /\ last' = [NoCall EXCEPT !.op = "crop", !.self = i, !.rect = rect,
                                          !.other = Len(objs) + 1]
           ELSE /\ objs' = r.objs
                /\ decodes' = r.decodes
                /\ last' = [NoCall EXCEPT !.op = "crop", !.self = i, !.rect = rect,
                                          !.status = r.status]
        /\ UNCHANGED disk

\* self.image then other.image, as difference and part_of read them
BothImages(i, j) ==
    LET r1 == ImageProp(disk, objs, decodes, i)
    IN  IF r1.status # "ok" THEN r1 ELSE ImageProp(disk, r1.objs, r1.decodes, j)

Difference(i, j) ==
    LET r == BothImages(i, j)
        d == DifferenceOf(r.objs[i].image, r.objs[j].image)
    IN  /\ objs' = r.objs
        /\ decodes' = r.decodes
        /\ last' = IF r.status # "ok"
                   THEN [NoCall EXCEPT !.op = "difference", !.self = i, !.other = j,
                                       !.status = r.status]
                   ELSE [NoCall EXCEPT !.op = "difference", !.self = i, !.other = j,
                                       !.status = d.status, !.val = d.val,
                                       !.branch = d.branch]
        /\ UNCHANGED disk

SameAs(i, j, given) ==
    LET r == BothImages(i, j)
        d == DifferenceOf(r.objs[i].image, r.objs[j].image)
    IN  /\ objs' = r.objs
        /\ decodes' = r.decodes
        /\ last' = IF r.status # "ok"
                   THEN [NoCall EXCEPT !.op = "same_as", !.self = i, !.other = j,
                                       !.given = given, !.status = r.status]
                   ELSE IF d.status # "ok"
                   THEN [NoCall EXCEPT !.op = "same_as", !.self = i, !.other = j,
                                       !.given = given, !.status = d.status,
                                       !.branch = d.branch]
                   ELSE [NoCall EXCEPT !.op = "same_as", !.self = i, !.other = j,
                                       !.given = given, !.branch = d.branch,
                                       !.val = <<SameAsOf(d.val, DefaultPerfect(given))>>]
        /\ UNCHANGED disk

PartOf(i, j, given) ==
    LET r == BothImages(i, j)
        result == MatchTemplate(r.objs[i].image, r.objs[j].image)
    IN  /\ objs' = r.objs
        /\ decodes' = r.decodes
        /\ last' = IF r.status # "ok"
                   THEN [NoCall EXCEPT !.op = "part_of", !.self = i, !.other = j,
                                       !.given = given, !.status = r.status]
                   ELSE IF result.status # "ok"
                   THEN [NoCall EXCEPT !.op = "part_of", !.self = i, !.other = j,
                                       !.given = given, !.status = result.status]
                   ELSE [NoCall EXCEPT !.op = "part_of", !.self = i, !.other = j,
                                       !.given = given,
                                       !.val = PartOfResult(MinMaxLoc(result),
                                                            DefaultPerfect(given))]
        /\ UNCHANGED disk

\* save(path, format): PNG stores the RGB buffer as it is
Save(i, path, format) ==
    LET r == ImageProp(disk, objs, decodes, i)
    IN  /\ objs' = r.objs
        /\ decodes' = r.decodes
        /\ last' = [NoCall EXCEPT
                      !.op = "save", !.self = i, !.path = path,
                      !.status = IF r.status # "ok" THEN r.status
                                 ELSE IF format = "PNG" THEN "ok" ELSE "KeyError"]
        /\ disk' = IF r.status = "ok" /\ format = "PNG"
                   THEN [disk EXCEPT ![path] = r.objs[i].image]
                   ELSE disk

(***************************************************************************)
(* Inputs.                                                                 *)
(***************************************************************************)
\* the sizes of the non-empty images of at most MaxPixels pixels
Sizes == {s \in (1..MaxPixels) \X (1..MaxPixels) : s[1] * s[2] <= MaxPixels}

\* every image of the mode with pixels from the set, of at most MaxPixels pixels
ImagesOf(mode, pixels) ==
    UNION {{[mode |-> mode, size |-> s, data |-> d] :
               d \in [1..(s[1] * s[2]) -> pixels]} : s \in Sizes}

GrayFile == [mode |-> "L", size |-> <<2, 1>>, data |-> <<<<10>>, <<20>>>>]

RgbaMem == [mode |-> "RGBA", size |-> <<1, 1>>, data |-> <<<<10, 20, 30, 255>>>>]

Paths == {"gray.png", "out.png"}

MemImages == {RgbaMem}

\* crop rectangles (x, y, w, h): empty, inside and partly outside the images
Rects == (0..(MaxCrop - 1)) \X (0..(MaxCrop - 1)) \X (0..MaxCrop) \X (0..MaxCrop)

FewRects == {<<0, 0, 0, 0>>, <<1, 0, 1, 1>>}

FewPoints == {<<1, 0>>, <<0, 1>>}

Thresholds == {Omitted, <<0, 1>>, <<10, 255>>}

Formats == {"PNG", "BOGUS"}

(***************************************************************************)
(* Spec: the life of up to MaxInst instances over a small file system.     *)
(***************************************************************************)
Init ==
    /\ disk = [p \in Paths |-> IF p = "gray.png" THEN GrayFile ELSE NoImage]
    /\ objs = <<>>
    /\ decodes = <<>>
    /\ last = NoCall

Next ==
    \/ \E path \in Paths \cup {NoPath}, image \in MemImages \cup {NoImage} :
          Construct(path, image)
    \/ \E i \in Insts : Width(i)
    \/ \E i \in Insts : Height(i)
    \/ \E i \in Insts : ToBytes(i)
    \/ \E i \in Insts, p \in FewPoints : Pixel(i, p[1], p[2])
    \/ \E i \in Insts, rect \in FewRects : Len(objs) < MaxInst /\ Crop(i, rect)
    \/ \E i \in Insts, j \in Insts : Difference(i, j)
    \/ \E i \in Insts, j \in Insts, given \in {Omitted} : SameAs(i, j, given)
    \/ \E i \in Insts, j \in Insts, given \in {Omitted} : PartOf(i, j, given)
    \/ \E i \in Insts, format \in Formats : Save(i, "out.png", format)

Spec == Init /\ [][Next]_vars

(***************************************************************************)
(* SpecDiff: difference and same_as on two instances built from any two    *)
(* small images, each from a file or from memory.                          *)
(***************************************************************************)
GrayPixels == {<<0>>, <<245>>}

RgbPixels == {<<0, 10, 245>>, <<30, 0, 100>>}

RgbaPixels == {<<0, 10, 245, 255>>, <<30, 0, 100, 0>>}

DiffImages ==
    ImagesOf("L", GrayPixels) \cup ImagesOf("RGB", RgbPixels)
        \cup ImagesOf("RGBA", RgbaPixels)

\* im with k added to every band of every pixel
Shift(im, k) ==
    [im EXCEPT !.data = [n \in 1..Area(im) |->
                           [c \in 1..Bands(im.mode) |-> im.data[n][c] + k]]]

Partners(a) == {a, Shift(a, 10)} \cup ImagesOf("RGB", {<<10, 20, 255>>})

\* an instance for the image: read lazily from the file, or given in memory
Built(kind, path, im) == IF kind = "path" THEN New(path, NoImage) ELSE New(NoPath, im)

InitDiff ==
    \E a \in DiffImages : \E b \in Partners(a) : \E ka \in {"path", "mem"} :
        /\ disk = [p \in {"a.png", "b.png"} |-> IF p = "a.png" THEN a ELSE b]
        /\ objs = <<Built(ka, "a.png", a), Built("mem", "b.png", b)>>
        /\ decodes = <<0, 0>>
        /\ last = NoCall

NextDiff ==
    \/ \E i \in Insts, j \in Insts : Difference(i, j)
    \/ \E i \in Insts, j \in Insts, given \in Thresholds : SameAs(i, j, given)

SpecDiff == InitDiff /\ [][NextDiff]_vars

(***************************************************************************)
(* SpecMatch: crop and part_of on an instance built from any small image.  *)
(***************************************************************************)
MatchImages ==
    ImagesOf("L", {<<0>>, <<1>>, <<2>>}) \cup ImagesOf("RGB", {<<0, 0, 0>>, <<1, 2, 0>>})

InitMatch ==
    \E a \in MatchImages : \E ka \in {"path", "mem"} :
        /\ disk = [p \in {"a.png"} |-> a]
        /\ objs = <<Built(ka, "a.png", a)>>
        /\ decodes = <<0>>
        /\ last = NoCall

NextMatch ==
    \/ \E rect \in Rects : Len(objs) = 1 /\ Crop(1, rect)
    \/ \E i \in Insts : \E j \in Insts \ {i}, given \in {Omitted, <<1, 1>>} :
          PartOf(i, j, given)

SpecMatch == InitMatch /\ [][NextMatch]_vars

(***************************************************************************)
(* Properties.                                                             *)
(***************************************************************************)
\* the threshold a call used: the one given, or 0.09 when it was left out
UsedThreshold == IF last.given = Omitted THEN <<9, 100>> ELSE last.given

\* the loaded images of the operands of the last call
SelfImage == objs[last.self].image

OtherImage == objs[last.other].image

\* C1: same_as(a, b, t) returns true exactly when difference(a, b) <= t, also
\* when the two are equal, with t = 0.09 when no threshold is given; it raises
\* exactly when difference raises.
SameAsIffWithinThreshold ==
    (last.op = "same_as" /\ last.status # "IOError") =>
        LET d == DifferenceOf(SelfImage, OtherImage)
            t == UsedThreshold
        IN  /\ last.status = d.status
            /\ last.status = "ok" =>
                   last.val = <<d.val[1] * t[2] <= t[1] * d.val[2]>>

\* C1 witness: same_as returned true for a non-zero difference equal to the threshold
SameAsAtBoundary ==
    /\ last.op = "same_as"
    /\ last.status = "ok"
    /\ last.given = <<10, 255>>
    /\ last.val = <<TRUE>>
    /\ LET d == DifferenceOf(SelfImage, OtherImage)
       IN  d.val[1] > 0 /\ d.val[1] * 255 = 10 * d.val[2]

\* C2: difference(img, img) is 0.0 for every image, and same_as(img, img) is
\* therefore true for every non-negative threshold.
DifferenceSelfIsZero ==
    (last.self = last.other /\ last.status # "IOError") =>
        /\ last.op = "difference" => last.status = "ok" /\ last.val[1] = 0
        /\ last.op = "same_as" => last.status = "ok" /\ last.val = <<TRUE>>

\* C3 as stated: the constructor succeeds exactly when one of path and image,
\* and not both, is given; otherwise it raises.
ExactlyOneSourceAccepted ==
    last.op = "__init__" =>
        (last.status = "ok" <=> ((last.path # NoPath) # (last.image # NoImage)))

\* C3 amended: the constructor raises exactly when neither a path nor an image is
\* given, and then makes no instance; with an image given, alone or with a
\* path, the instance holds that image converted to RGB and never opens a file.
NeitherSourceRejected ==
    last.op = "__init__" =>
        /\ last.status = "AssertionError" <=> (last.path = NoPath /\ last.image = NoImage)
        /\ last.status \in {"ok", "AssertionError"}
        /\ last.status = "ok" =>
               /\ last.self = Len(objs)
               /\ objs[last.self].path = last.path
               /\ decodes[last.self] = 0
               /\ objs[last.self].image =
                      (IF last.image = NoImage THEN NoImage ELSE ConvertRGB(last.image))
        /\ last.status = "AssertionError" => last.self = 0

\* C3 witness: a construction with both a path and an in-memory image succeeded
BothSourcesAccepted ==
    /\ last.op = "__init__"
    /\ last.status = "ok"
    /\ last.path # NoPath
    /\ last.image # NoImage

\* the image instance i shows: its buffer, or what its file decodes to
Shown(d, o) ==
    IF o.image # NoImage THEN o.image
    ELSE IF CanOpen(d, o.path) THEN ConvertRGB(d[o.path]) ELSE NoImage

\* the rectangle lies inside the image
InBounds(rect, im) == rect[1] + rect[3] <= im.size[1] /\ rect[2] + rect[4] <= im.size[2]

\* C4: crop of a rectangle (x, y, w, h) inside the image makes a new w x h
\* image whose pixel (i, j) is the source's pixel (x + i, y + j); the source's
\* pixels and size are as before the call.
CropTakesSubRectangle ==
    [][(/\ last'.op = "crop"
        /\ last'.status = "ok"
        /\ InBounds(last'.rect, Shown(disk, objs[last'.self])))
       => LET src == Shown(disk, objs[last'.self])
              new == objs'[last'.other].image
              x == last'.rect[1]
              y == last'.rect[2]
              w == last'.rect[3]
              h == last'.rect[4]
          IN  /\ last'.other = Len(objs) + 1
              /\ Len(objs') = Len(objs) + 1
              /\ new.size = <<w, h>>
              /\ \A i \in 0..(w - 1), j \in 0..(h - 1) :
                     GetPixel(new, i, j) = GetPixel(src, x + i, y + j)
              /\ objs'[last'.self].image = src
              /\ \A k \in 1..Len(objs) : Shown(disk', objs'[k]) = Shown(disk, objs[k])]_vars

\* C4 witness: a crop away from the origin, inside an image read from a file
CroppedInside ==
    /\ last.op = "crop"
    /\ last.status = "ok"
    /\ last.rect[1] + last.rect[2] > 0
    /\ last.rect[3] * last.rect[4] > 0
    /\ InBounds(last.rect, SelfImage)
    /\ objs[last.self].path # NoPath

\* the result surface of the last part_of call
LastSurface == MatchTemplate(SelfImage, OtherImage)

\* the placement of index k of a surface
Loc(res, k) == <<(k - 1) % res.cols, (k - 1) \div res.cols>>

\* the placements of the haystack whose window is pixel for pixel the needle
Occurrences(needle, hay) ==
    {p \in (0..(hay.size[1] - needle.size[1])) \X (0..(hay.size[2] - needle.size[2])) :
        \A i \in 0..(needle.size[1] - 1), j \in 0..(needle.size[2] - 1) :
            GetPixel(hay, p[1] + i, p[2] + j) = GetPixel(needle, i, j)}

\* C5: when the needle is a sub-region of the haystack whose pattern occurs at
\* no other placement, needle.part_of(haystack) returns that placement.
PartOfFindsExtractedRegion ==
    (/\ last.op = "part_of"
     /\ last.given = Omitted
     /\ Area(SelfImage) > 0
     /\ Cardinality(Occurrences(SelfImage, OtherImage)) = 1)
    => last.status = "ok" /\ last.val \in Occurrences(SelfImage, OtherImage)

RawSum(a, b) ==
    LET band(c) == SumTo([k \in 1..Area(a) |-> Abs(a.data[k][c] - b.data[k][c])], Area(a))
    IN  band(1) + band(2) + band(3)

\* every band of every pixel of b is that of a plus k
IsShifted(a, b, k) ==
    /\ a.size = b.size
    /\ \A n \in 1..Area(a) : \A c \in 1..3 : b.data[n][c] = a.data[n][c] + k

PixelOps ==
    {"width", "height", "pixel", "crop", "to_bytes", "difference", "same_as",
     "part_of", "save"}

\* C8: an instance made from a path holds no buffer after construction; a
\* pixel-dependent call that does not fail to open the file leaves its
\* operands loaded; a loaded buffer is never replaced and its instance never
\* decodes again, so no instance decodes twice and one made from an
\* in-memory image never decodes.
DecodedLazilyOnce ==
    [][/\ \A i \in 1..Len(objs) :
              /\ objs'[i].path = objs[i].path
              /\ objs[i].image # NoImage =>
                     objs'[i].image = objs[i].image /\ decodes'[i] = decodes[i]
              /\ objs[i].image = NoImage =>
                     /\ decodes[i] = 0
                     /\ objs'[i].image # NoImage => decodes'[i] = 1
                     /\ objs'[i].image = NoImage => decodes'[i] = 0
       /\ \A i \in (Len(objs) + 1)..Len(objs') :
              /\ decodes'[i] = 0
              /\ (last'.op = "__init__" /\ last'.image = NoImage) =>
                     objs'[i].image = NoImage
       /\ (last'.op \in PixelOps /\ last'.status # "IOError") =>
              /\ objs'[last'.self].image # NoImage
              /\ last'.op \in {"difference", "same_as", "part_of"} =>
                     objs'[last'.other].image # NoImage]_vars

\* C8 witness: difference(img, img) read the image of a path-built instance
\* twice and the instance decoded once
ReadTwiceDecodedOnce ==
    /\ last.op = "difference"
    /\ last.status = "ok"
    /\ last.self = last.other
    /\ objs[last.self].path # NoPath
    /\ decodes[last.self] = 1

\* C9: difference on images of different pixel counts raises nothing: it sums
\* over the first min(count(a), count(b)) pixel pairs and divides by 255 and
\* by a.width * a.height * 3.
MismatchedSizesTruncate ==
    (/\ last.op = "difference"
     /\ last.status # "IOError"
     /\ Area(SelfImage) # Area(OtherImage))
    => LET a == SelfImage
           b == OtherImage
           n == Min(Area(a), Area(b))
           pair == [k \in 1..n |->
                      Abs(a.data[k][1] - b.data[k][1]) + Abs(a.data[k][2] - b.data[k][2])
                          + Abs(a.data[k][3] - b.data[k][3])]
       IN  /\ last.status = "ok"
           /\ last.val = <<SumTo(pair, n), 255 * (a.size[1] * a.size[2] * 3)>>

\* C10: every loaded buffer is 3-band RGB, whatever the mode of its source,
\* and difference never takes its single-band branch.
LoadedIsRGB ==
    /\ \A i \in 1..Len(objs) :
           objs[i].image # NoImage =>
               /\ objs[i].image.mode = "RGB"
               /\ \A k \in 1..Area(objs[i].image) : Len(objs[i].image.data[k]) = 3
    /\ last.op \in {"difference", "same_as"} => last.branch # "gray"

\* C10 witness: difference ran on an instance read from the grey-scale file
\* and on one given an RGBA image
DifferenceOnConverted ==
    /\ last.op = "difference"
    /\ last.status = "ok"
    /\ objs[last.self].path = "gray.png"
    /\ decodes[last.self] = 1
    /\ OtherImage = ConvertRGB(RgbaMem)

====
